---- MODULE Spec2Model ----
(***************************************************************************)
(* Booking intake and job dispatch of the Leila API gateway.               *)
(*                                                                         *)
(* Two applications live in the repository and share no state:             *)
(*   - server.js keeps bookings, jobs and api keys in a private in-memory  *)
(*     SQLite database (create booking, list available jobs, accept job);  *)
(*   - src/routes/bookings.js (mounted under /api/v1/bookings) keeps its   *)
(*     bookings as meetings in an external CRM reached through crmClient   *)
(*     (create, update, cancel).                                           *)
(* server.js also counts every request in its apiStats object and checks    *)
(* the API key a request presents before the request reaches its route.    *)
(* Each SQL statement runs atomically; a handler that issues a second      *)
(* statement from the callback of the first is two steps, and statements   *)
(* of other requests may run between them.                                 *)
(***************************************************************************)
EXTENDS Integers, Sequences, FiniteSets, TLC

\* ---------------------------------------------------------------- bounds
MaxBookings == 2        \* rows POST /api/bookings may insert
MaxReq      == 2        \* POST /api/jobs/accept requests
MaxMeetings == 2        \* meetings POST /api/v1/bookings may create
MaxEvents   == 2        \* webhook events of one type that are counted
MaxMReq     == 3        \* requests that enter the middleware chain of server.js
MaxKeys     == 1        \* rows POST /api/keys may insert
MaxContractors == 1     \* rows POST /api/contractors/signup may insert

\* ------------------------------------------------------------ value sets
NULL        == 0        \* SQL NULL / a field that is absent
Contractors == {1, 2}
\* the claims contractors submit: contractor 1 asks 150, contractor 2 asks 140;
\* a claim may also leave the contractor out
Quotes      == {<<1, 150>>, <<2, 140>>, <<NULL, 150>>}
Services    == {"Plumbing"}
\* the strings a request body may carry as its service name: the empty string
\* is a string, not a missing field
AnyService  == Services \cup {""}
Reqs        == 1..MaxReq

\* status values written to a meeting by PUT /api/v1/bookings/:id bodies
BodyStatus  == {"pending"}

VARIABLES
  bookings,   \* server.js: table bookings, row id = index (AUTOINCREMENT)
  jobs,       \* server.js: table jobs, row id = index
  acc,        \* server.js: the accept-job requests, by request
  meetings,   \* CRM: meetings, id = index
  triggered,  \* webhook events handed to webhookManager.trigger, by type
  resp,       \* server.js: the response last sent by a one-statement handler
  v1resp,     \* /api/v1/bookings: the response last sent
  contractors,\* server.js: table contractors, row id = index
  outbox,     \* webhook events awaiting delivery / whose delivery failed, by type
  apiStats,   \* server.js: the apiStats object of the monitoring middleware
  api_keys,   \* server.js: table api_keys, row id = index
  mreq,       \* server.js: requests on their way through the middleware chain
  mresp,      \* server.js: the statistics last answered by GET /api/stats
  crashed     \* server.js: the process has died of an uncaught exception

\* the state behind the monitoring and API-key middleware
meterVars == <<apiStats, api_keys, mreq, mresp, crashed>>

vars == <<bookings, jobs, acc, meetings, triggered, resp, v1resp,
          contractors, outbox, apiStats, api_keys, mreq, mresp, crashed>>

\* ------------------------------------------------------- storage: SQLite

\* CREATE TABLE bookings: status defaults to 'pending', contractor_id to NULL,
\* created_at to CURRENT_TIMESTAMP.
NewBookingRow(service, now) ==
  [service |-> service, status |-> "pending", contractor_id |-> NULL,
   created_at |-> now]

\* CREATE TABLE jobs: booking_id and contractor_id are NOT NULL; the foreign
\* keys are declared but SQLite does not enforce them unless
\* PRAGMA foreign_keys is switched on, which server.js never does.
JobInsertFails(bookingId, contractorId) ==
  bookingId = NULL \/ contractorId = NULL

NewJobRow(bookingId, contractorId, price) ==
  [booking_id |-> bookingId, contractor_id |-> contractorId,
   price |-> price, status |-> "accepted"]

\* A variant of the UPDATE that sets the status and forgets the contractor.
UpdateBookingStatusOnly(bs, bookingId, contractorId) ==
  IF bookingId \in DOMAIN bs
    THEN [bs EXCEPT ![bookingId].status = "confirmed"]
    ELSE bs

\* A variant of the UPDATE without its WHERE clause: every row is written.
UpdateEveryBooking(bs, bookingId, contractorId) ==
  [b \in DOMAIN bs |->
     [bs[b] EXCEPT !.contractor_id = contractorId, !.status = "confirmed"]]

\* UPDATE bookings SET contractor_id = ?, status = ? WHERE id = ?
\* One statement: both columns change together; no row matches a missing id,
\* which is not an error.
UpdateBookingRow(bs, bookingId, contractorId) ==
  IF bookingId \in DOMAIN bs
    THEN [bs EXCEPT ![bookingId] =
            [@ EXCEPT !.contractor_id = contractorId, !.status = "confirmed"]]
    ELSE bs

\* The times CURRENT_TIMESTAMP may return for a new row: the clock never runs
\* backwards and has a resolution of one second, so the new row is created in
\* the same second as the row before it, or later.
Clock(bs) ==
  IF Len(bs) = 0 THEN {0}
  ELSE {bs[Len(bs)].created_at, bs[Len(bs)].created_at + 1}

\* WHERE b.status = 'pending' AND b.contractor_id IS NULL
AvailableIds(bs) ==
  {i \in DOMAIN bs : bs[i].status = "pending" /\ bs[i].contractor_id = NULL}

\* A variant of the ordering: ORDER BY b.created_at ASC.
OrderedByCreatedAsc(bs, ids) ==
  {s \in [1..Cardinality(ids) -> ids] :
      /\ \A i, j \in DOMAIN s : i # j => s[i] # s[j]
      /\ \A i, j \in DOMAIN s : i < j => bs[s[i]].created_at <= bs[s[j]].created_at}

\* ORDER BY b.created_at DESC: every order of the ids in which created_at
\* never increases (rows with equal created_at come in any order).
OrderedByCreatedDesc(bs, ids) ==
  {s \in [1..Cardinality(ids) -> ids] :
      /\ \A i, j \in DOMAIN s : i # j => s[i] # s[j]
      /\ \A i, j \in DOMAIN s : i < j => bs[s[i]].created_at >= bs[s[j]].created_at}

\* ---------------------------------------------------------- storage: CRM

\* crmClient.createMeeting: the CRM stores the meeting under a new id.
CrmCreateMeeting(ms, status) == Append(ms, [status |-> status])

\* crmClient.updateMeeting(id, changes): applies the changes to the meeting;
\* for an id the CRM does not know it throws not-found, which the handlers
\* pass to the error middleware (answered with err.status, 404).
CrmHasMeeting(ms, id) == id \in DOMAIN ms

CrmUpdateMeeting(ms, id, status) ==
  IF status = "" THEN ms ELSE [ms EXCEPT ![id].status = status]

\* --------------------------------------------------------------- webhooks
EventTypes == {"booking.created", "booking.updated", "booking.cancelled"}

\* webhookManager.trigger(type, payload): the event is handed over for
\* delivery and the call returns.
Trigger(t, type) == [t EXCEPT ![type] = @ + 1]

CanTrigger(t, type) == t[type] < MaxEvents

\* The event joins those awaiting delivery: delivery is decoupled from the
\* request that triggered the event.
Enqueue(o, type) == [o EXCEPT ![type].queued = @ + 1]

\* the events of a type awaiting delivery
Queued(o, type) == o[type].queued

\* one delivery attempt of an event of the type has ended, well or not
Delivered(o, type, ok) ==
  [o EXCEPT ![type] = [queued |-> @.queued - 1,
                       failed |-> IF ok THEN @.failed ELSE @.failed + 1]]

\* ------------------------------------------------- storage: contractors

\* CREATE TABLE contractors: status defaults to 'pending'. The signup INSERT
\* names no status, and no statement of server.js updates the table.
NewContractorRow == [status |-> "pending"]

\* the contractor exists and its status is 'active'
ContractorActive(cs, contractorId) ==
  contractorId \in DOMAIN cs /\ cs[contractorId].status = "active"

\* ----------------------------------------------------- storage: api_keys

\* An api key is the random string stored in its row; a presented key is
\* written as the id of the row that holds it, NULL when the header is absent
\* and UnknownKey for a string that no row holds.
UnknownKey == -1
LastUsedSet == 1        \* last_used holds a timestamp

\* CREATE TABLE api_keys: usage_count defaults to 0, last_used to NULL,
\* active to 1.
NewKeyRow == [usage_count |-> 0, last_used |-> NULL, active |-> 1]

\* A variant of the lookup that takes a key no row holds for the key of the
\* first row.
FindAnyKey(ks, key) ==
  IF key \in DOMAIN ks THEN key ELSE IF Len(ks) > 0 THEN 1 ELSE NULL

\* SELECT * FROM api_keys WHERE key = ? AND active = 1: the id of the row
\* found, NULL when there is none.
FindActiveKey(ks, key) ==
  IF key \in DOMAIN ks /\ ks[key].active = 1 THEN key ELSE NULL

\* A variant of the usage UPDATE that writes 1 instead of adding 1.
UsageUpdateFlat(ks, id) ==
  [ks EXCEPT ![id] = [@ EXCEPT !.usage_count = 1, !.last_used = LastUsedSet]]

\* UPDATE api_keys SET usage_count = usage_count + 1,
\*   last_used = CURRENT_TIMESTAMP WHERE id = ?
UsageUpdate(ks, id) ==
  [ks EXCEPT ![id] = [@ EXCEPT !.usage_count = @ + 1, !.last_used = LastUsedSet]]

\* ------------------------------------------------ monitoring middleware
\* a path under /api/ for which server.js registers no route
Unmatched == "GET /api/unknown"

Endpoints == {"GET /api/stats", "POST /api/keys", "POST /api/bookings",
              Unmatched}

\* Date.now() - start of a request when it is answered, in milliseconds:
\* every answer is taken to need one millisecond
Durations == {1}
MReqs     == 1..MaxMReq

NoEndpoints == [e \in {} |-> [count |-> 0, totalTime |-> 0, errors |-> 0]]

\* let apiStats = { totalRequests: 0, endpoints: {}, errors: 0, ... }
InitStats == [totalRequests |-> 0, errors |-> 0, endpoints |-> NoEndpoints]

\* A variant of the counting that counts an endpoint's first request only.
MeterCountFirst(s, ep) ==
  IF ep \in DOMAIN s.endpoints
    THEN s
    ELSE [s EXCEPT !.totalRequests = @ + 1,
                   !.endpoints = [e \in DOMAIN s.endpoints \cup {ep} |->
                                    IF e = ep THEN [count |-> 1, totalTime |-> 0, errors |-> 0]
                                    ELSE s.endpoints[e]]]

\* The middleware's synchronous part: apiStats.totalRequests++, the endpoint's
\* entry made on first use, and its count++. JavaScript runs it to the end
\* before any other callback, so it is one step.
MeterCount(s, ep) ==
  LET es == [e \in DOMAIN s.endpoints \cup {ep} |->
               IF e \in DOMAIN s.endpoints THEN s.endpoints[e]
               ELSE [count |-> 0, totalTime |-> 0, errors |-> 0]]
  IN [s EXCEPT !.totalRequests = @ + 1,
               !.endpoints = [es EXCEPT ![ep].count = @ + 1]]

\* A variant of the wrapped res.send that counts an error in apiStats.errors
\* only.
MeterSendTotalOnly(s, ep, code) ==
  IF code >= 400 THEN [s EXCEPT !.errors = @ + 1] ELSE s

\* The wrapped res.send: a status code of 400 or more counts one error in
\* apiStats.errors and one in the endpoint's entry.
MeterSend(s, ep, code) ==
  IF code >= 400
    THEN [s EXCEPT !.errors = @ + 1, !.endpoints[ep].errors = @ + 1]
    ELSE s

\* The wrapped res.send: apiStats.endpoints[endpoint].totalTime += duration.
MeterTime(s, ep, duration) ==
  [s EXCEPT !.endpoints[ep].totalTime = @ + duration]

\* The wrapped res.send as a whole, called once by the res.json of a handler.
Sent(s, ep, code, duration) == MeterSend(MeterTime(s, ep, duration), ep, code)

\* Number.prototype.toFixed(2) of a value given in hundredths.
ToFixed2(h) ==
  ToString(h \div 100) \o "." \o
  (IF h % 100 < 10 THEN "0" ELSE "") \o ToString(h % 100)

\* A variant of the rate that cuts the third decimal off instead of rounding.
ErrorRateTruncated(errors, total) ==
  IF total = 0
    THEN (IF errors = 0 THEN "NaN%" ELSE "Infinity%")
    ELSE ToFixed2((errors * 10000) \div total) \o "%"

\* ((apiStats.errors / apiStats.totalRequests) * 100).toFixed(2) + '%'
\* 0 / 0 is NaN and n / 0 is Infinity, which toFixed prints by name; any other
\* value is rounded to the nearest hundredth.
ErrorRate(errors, total) ==
  IF total = 0
    THEN (IF errors = 0 THEN "NaN%" ELSE "Infinity%")
    ELSE ToFixed2((errors * 20000 + total) \div (2 * total)) \o "%"

\* the stats object of app.get('/api/stats')
Snapshot(s) ==
  [totalRequests |-> s.totalRequests, totalErrors |-> s.errors,
   errorRate |-> ErrorRate(s.errors, s.totalRequests)]

NoStats == [totalRequests |-> 0, totalErrors |-> 0, errorRate |-> ""]

IdleMReq ==
  [pc |-> "idle", ep |-> "", key |-> NULL, bodyOk |-> TRUE, rec |-> "none",
   code |-> 0]

\* ------------------------------------------------------------- responses
NoResp == [op |-> "none", code |-> 0, id |-> NULL, status |-> "", rows |-> <<>>]

Reply(op, code, id, status, rows) ==
  [op |-> op, code |-> code, id |-> id, status |-> status, rows |-> rows]

IdleReq ==
  [pc |-> "idle", bookingId |-> NULL, contractorId |-> NULL, jobId |-> NULL,
   code |-> 0, seen |-> ""]

\* ------------------------------------------------------------------ Init
Init ==
  /\ bookings = <<>>
  /\ jobs = <<>>
  /\ acc = [r \in Reqs |-> IdleReq]
  /\ meetings = <<>>
  /\ triggered = [type \in EventTypes |-> 0]
  /\ resp = NoResp
  /\ v1resp = NoResp
  /\ contractors = <<>>
  /\ outbox = [type \in EventTypes |-> [queued |-> 0, failed |-> 0]]
  /\ apiStats = InitStats
  /\ api_keys = <<>>
  /\ mreq = [r \in MReqs |-> IdleMReq]
  /\ mresp = NoStats
  /\ crashed = FALSE

\* ------------------------------------------------------ server.js actions

\* app.post('/api/bookings'): one INSERT; a required column left out makes
\* the INSERT fail (NOT NULL) and the handler answers 500; otherwise it
\* answers 200 with the new row's id (this.lastID), not the row.
CreateBookingFrom(services) ==
  /\ Len(bookings) < MaxBookings
  /\ \E complete \in BOOLEAN, service \in services, now \in Clock(bookings) :
       IF complete
         THEN /\ bookings' = Append(bookings, NewBookingRow(service, now))
              /\ resp' = Reply("create", 200, Len(bookings) + 1, "", <<>>)
         ELSE /\ bookings' = bookings
              /\ resp' = Reply("create", 500, NULL, "", <<>>)
  /\ UNCHANGED <<jobs, acc, meetings, triggered, v1resp>>
  /\ UNCHANGED <<contractors, outbox, meterVars>>

\* POST /api/bookings with a service name as customers choose it
CreateBooking == CreateBookingFrom(Services)

\* POST /api/bookings with any string as its service name. The handler reads
\* the body's fields and binds them to the INSERT as they are.
CreateBookingAny == CreateBookingFrom(AnyService)

\* app.post('/api/contractors/signup'): one INSERT that names no status, so
\* the row gets the default 'pending'; answered 200 with the new id, 400 when
\* the email is taken, 500 on another error.
ContractorSignup ==
  /\ Len(contractors) < MaxContractors
  /\ \E code \in {200, 400, 500} :
       IF code = 200
         THEN /\ contractors' = Append(contractors, NewContractorRow)
              /\ resp' = Reply("signup", 200, Len(contractors) + 1, "", <<>>)
         ELSE /\ contractors' = contractors
              /\ resp' = Reply("signup", code, NULL, "", <<>>)
  /\ UNCHANGED <<bookings, jobs, acc, meetings, triggered, v1resp>>
  /\ UNCHANGED <<outbox, meterVars>>

\* app.get('/api/jobs/available'): one SELECT, answered with its rows.
AvailableJobs ==
  /\ \E rows \in OrderedByCreatedDesc(bookings, AvailableIds(bookings)) :
       resp' = Reply("available", 200, NULL, "", rows)
  /\ UNCHANGED <<bookings, jobs, acc, meetings, triggered, v1resp>>
  /\ UNCHANGED <<contractors, outbox, meterVars>>

\* app.post('/api/jobs/accept'), first statement: INSERT INTO jobs with status
\* 'accepted'. No statement reads the booking. On error the handler answers
\* 500; otherwise the callback goes on to the UPDATE.
\* seen records what the booking was when the request arrived. Requests are
\* numbered in the order they arrive; of a request refused here only the
\* answer is kept.
AcceptInsert(r) ==
  /\ acc[r].pc = "idle"
  /\ IF r = 1 THEN TRUE ELSE acc[r - 1].pc # "idle"
  /\ \E bookingId \in 1..(Len(bookings) + 1), quote \in Quotes :
       LET contractorId == quote[1]
           price == quote[2]
           seen == IF bookingId \in DOMAIN bookings
                     THEN bookings[bookingId].status ELSE "missing"
       IN IF JobInsertFails(bookingId, contractorId)
            THEN /\ jobs' = jobs
                 /\ acc' = [acc EXCEPT ![r] =
                      [IdleReq EXCEPT !.pc = "done", !.code = 500]]
            ELSE /\ jobs' = Append(jobs, NewJobRow(bookingId, contractorId, price))
                 /\ acc' = [acc EXCEPT ![r] =
                      [pc |-> "inserted", bookingId |-> bookingId,
                       contractorId |-> contractorId, jobId |-> Len(jobs) + 1,
                       code |-> 0, seen |-> seen]]
  /\ UNCHANGED <<bookings, meetings, triggered, resp, v1resp>>
  /\ UNCHANGED <<contractors, outbox, meterVars>>

\* A variant of the second statement that waits for every claim that arrived
\* earlier to be answered.
AcceptUpdateSerialized(r) ==
  /\ acc[r].pc = "inserted"
  /\ \A q \in Reqs : q < r => acc[q].pc # "inserted"
  /\ \E updateErr \in BOOLEAN :
       IF updateErr
         THEN /\ bookings' = bookings
              /\ acc' = [acc EXCEPT ![r].pc = "done", ![r].code = 500]
         ELSE /\ bookings' = UpdateBookingRow(bookings, acc[r].bookingId,
                                              acc[r].contractorId)
              /\ acc' = [acc EXCEPT ![r].pc = "done", ![r].code = 200]
  /\ UNCHANGED <<jobs, meetings, triggered, resp, v1resp>>
  /\ UNCHANGED <<contractors, outbox, meterVars>>

\* app.post('/api/jobs/accept'), second statement, issued from the INSERT's
\* callback: the UPDATE of the booking, then 200 with the job id, or 500 when
\* the statement fails.
AcceptUpdate(r) ==
  /\ acc[r].pc = "inserted"
  /\ \E updateErr \in BOOLEAN :
       IF updateErr
         THEN /\ bookings' = bookings
              /\ acc' = [acc EXCEPT ![r].pc = "done", ![r].code = 500]
         ELSE /\ bookings' = UpdateBookingRow(bookings, acc[r].bookingId,
                                              acc[r].contractorId)
              /\ acc' = [acc EXCEPT ![r].pc = "done", ![r].code = 200]
  /\ UNCHANGED <<jobs, meetings, triggered, resp, v1resp>>
  /\ UNCHANGED <<contractors, outbox, meterVars>>

\* ------------------------------------------- src/routes/bookings.js actions

\* router.post('/'): 400 when validation fails; otherwise a lead, a meeting
\* with status 'Planned' and a task are created in the CRM, booking.created is
\* triggered, and the booking is answered with 201, its id the meeting's and
\* its status the literal 'confirmed'.
V1CreateBooking ==
  /\ Len(meetings) < MaxMeetings
  /\ CanTrigger(triggered, "booking.created")
  /\ \E valid \in BOOLEAN :
       IF valid
         THEN /\ meetings' = CrmCreateMeeting(meetings, "Planned")
              /\ triggered' = Trigger(triggered, "booking.created")
              /\ outbox' = Enqueue(outbox, "booking.created")
              /\ v1resp' = Reply("v1create", 201, Len(meetings) + 1, "confirmed", <<>>)
         ELSE /\ meetings' = meetings
              /\ triggered' = triggered
              /\ outbox' = outbox
              /\ v1resp' = Reply("v1create", 400, NULL, "", <<>>)
  /\ UNCHANGED <<bookings, jobs, acc, resp>>
  /\ UNCHANGED <<contractors, meterVars>>

\* router.put('/:id'): req.body goes to crmClient.updateMeeting unchanged,
\* then booking.updated is triggered and the updated meeting answered.
V1UpdateBooking ==
  /\ CanTrigger(triggered, "booking.updated")
  /\ \E id \in 1..(MaxMeetings + 1), status \in BodyStatus \cup {""} :
       IF CrmHasMeeting(meetings, id)
         THEN /\ meetings' = CrmUpdateMeeting(meetings, id, status)
              /\ triggered' = Trigger(triggered, "booking.updated")
              /\ outbox' = Enqueue(outbox, "booking.updated")
              /\ v1resp' = Reply("v1update", 200, id, meetings'[id].status, <<>>)
         ELSE /\ meetings' = meetings
              /\ triggered' = triggered
              /\ outbox' = outbox
              /\ v1resp' = Reply("v1update", 404, id, "", <<>>)
  /\ UNCHANGED <<bookings, jobs, acc, resp>>
  /\ UNCHANGED <<contractors, meterVars>>

\* A variant of the cancel handler that refuses a meeting already cancelled.
V1CancelBookingOnce ==
  /\ CanTrigger(triggered, "booking.cancelled")
  /\ \E id \in 1..(MaxMeetings + 1) :
       IF CrmHasMeeting(meetings, id) /\ meetings[id].status # "Canceled"
         THEN /\ meetings' = CrmUpdateMeeting(meetings, id, "Canceled")
              /\ triggered' = Trigger(triggered, "booking.cancelled")
              /\ outbox' = Enqueue(outbox, "booking.cancelled")
              /\ v1resp' = Reply("v1cancel", 204, id, "", <<>>)
         ELSE /\ meetings' = meetings
              /\ triggered' = triggered
              /\ outbox' = outbox
              /\ v1resp' = Reply("v1cancel",
                     IF CrmHasMeeting(meetings, id) THEN 409 ELSE 404, id, "", <<>>)
  /\ UNCHANGED <<bookings, jobs, acc, resp>>
  /\ UNCHANGED <<contractors, meterVars>>

\* router.delete('/:id'): crmClient.updateMeeting(id, {status: 'Canceled'}),
\* then booking.cancelled is triggered and 204 answered. The meeting's
\* current status is not read.
V1CancelBooking ==
  /\ CanTrigger(triggered, "booking.cancelled")
  /\ \E id \in 1..(MaxMeetings + 1) :
       IF CrmHasMeeting(meetings, id)
         THEN /\ meetings' = CrmUpdateMeeting(meetings, id, "Canceled")
              /\ triggered' = Trigger(triggered, "booking.cancelled")
              /\ outbox' = Enqueue(outbox, "booking.cancelled")
              /\ v1resp' = Reply("v1cancel", 204, id, "", <<>>)
         ELSE /\ meetings' = meetings
              /\ triggered' = triggered
              /\ outbox' = outbox
              /\ v1resp' = Reply("v1cancel", 404, id, "", <<>>)
  /\ UNCHANGED <<bookings, jobs, acc, resp>>
  /\ UNCHANGED <<contractors, meterVars>>

\* A variant of the delivery whose failure is answered to the client as a
\* server error.
DeliverEventFailing ==
  \E type \in EventTypes, ok \in BOOLEAN :
    /\ Queued(outbox, type) > 0
    /\ outbox' = Delivered(outbox, type, ok)
    /\ v1resp' = IF ok THEN v1resp ELSE Reply(v1resp.op, 500, NULL, "", <<>>)
    /\ UNCHANGED <<bookings, jobs, acc, resp, meetings, triggered>>
    /\ UNCHANGED <<contractors, meterVars>>

\* webhookManager delivers an event that was handed to it, or fails to; the
\* request that triggered the event has been answered by then.
DeliverEvent ==
  \E type \in EventTypes, ok \in BOOLEAN :
    /\ Queued(outbox, type) > 0
    /\ outbox' = Delivered(outbox, type, ok)
    /\ v1resp' = v1resp
    /\ UNCHANGED <<bookings, jobs, acc, resp, meetings, triggered>>
    /\ UNCHANGED <<contractors, meterVars>>

\* ------------------------------------- server.js: the middleware chain

\* What a route of server.js answers before it returns, or 0 when it has
\* issued a statement and answers from the statement's callback:
\* GET /api/stats answers its statistics, POST /api/keys answers 400 when name
\* or email is missing, and the other routes issue their INSERT. A path that
\* no route matches falls through the stack and is answered 404.
Immediate(ep, bodyOk) ==
  IF ep = "GET /api/stats" THEN 200
  ELSE IF ep = "POST /api/keys" /\ ~bodyOk THEN 400
  ELSE IF ep = Unmatched THEN 404
  ELSE 0

\* The answer goes through the response's send method: true of the handlers
\* of server.js, which all answer with res.json. The 404 of an unmatched path
\* is written by the framework's final handler with res.end.
ThroughSend(ep) == ep # Unmatched

\* A variant of the routing in which GET /api/stats reads the statistics as
\* they were before the request was counted.
RouteUncounted(r, ep, key, bodyOk, stats, rec) ==
  LET code == Immediate(ep, bodyOk)
  IN /\ \E duration \in Durations :
          apiStats' = IF code = 0 \/ ~ThroughSend(ep) THEN stats
                      ELSE Sent(stats, ep, code, duration)
     /\ mreq' = [mreq EXCEPT ![r] =
                   [pc |-> IF code = 0 THEN "stmt" ELSE "done", ep |-> ep,
                    key |-> key, bodyOk |-> bodyOk, rec |-> rec, code |-> code]]
     /\ mresp' = IF ep = "GET /api/stats" THEN Snapshot(apiStats) ELSE mresp

\* next(): the request reaches its route, in the same turn of the event loop.
\* stats is apiStats as this turn has left it so far, rec the state of the
\* request's usage UPDATE.
Route(r, ep, key, bodyOk, stats, rec) ==
  LET code == Immediate(ep, bodyOk)
  IN /\ \E duration \in Durations :
          apiStats' = IF code = 0 \/ ~ThroughSend(ep) THEN stats
                      ELSE Sent(stats, ep, code, duration)
     /\ mreq' = [mreq EXCEPT ![r] =
                   [pc |-> IF code = 0 THEN "stmt" ELSE "done", ep |-> ep,
                    key |-> key, bodyOk |-> bodyOk, rec |-> rec, code |-> code]]
     /\ mresp' = IF ep = "GET /api/stats" THEN Snapshot(stats) ELSE mresp

\* A request arrives: the monitoring middleware counts it, then validateApiKey
\* lets it through to its route when it carries no key, and otherwise issues
\* the SELECT for the key. Requests are numbered in the order they arrive.
MeterArrive(r) ==
  /\ ~crashed
  /\ mreq[r].pc = "idle"
  /\ IF r = 1 THEN TRUE ELSE mreq[r - 1].pc # "idle"
  /\ \E ep \in Endpoints, key \in {NULL, UnknownKey} \cup DOMAIN api_keys :
       \E bodyOk \in (IF ep = "POST /api/keys" THEN BOOLEAN ELSE {TRUE}) :
         LET counted == MeterCount(apiStats, ep)
         IN IF key = NULL
              THEN Route(r, ep, key, bodyOk, counted, "none")
              ELSE /\ apiStats' = counted
                   /\ mreq' = [mreq EXCEPT ![r] =
                        [pc |-> "lookup", ep |-> ep, key |-> key,
                         bodyOk |-> bodyOk, rec |-> "none", code |-> 0]]
                   /\ mresp' = mresp
  /\ UNCHANGED <<api_keys, crashed>>
  /\ UNCHANGED <<bookings, jobs, acc, meetings, triggered, resp, v1resp>>
  /\ UNCHANGED <<contractors, outbox>>

\* validateApiKey, the SELECT's callback: on an error or when no active row
\* holds the key the request is answered 401 and goes no further. Otherwise
\* the usage UPDATE is issued, with no callback, and the request goes on to
\* its route at once.
MeterKeyLookup(r) ==
  /\ ~crashed
  /\ mreq[r].pc = "lookup"
  /\ \E err \in BOOLEAN :
       LET id == IF err THEN NULL ELSE FindActiveKey(api_keys, mreq[r].key)
       IN IF id = NULL
            THEN /\ \E duration \in Durations :
                      apiStats' = Sent(apiStats, mreq[r].ep, 401, duration)
                 /\ mreq' = [mreq EXCEPT ![r].pc = "done", ![r].code = 401]
                 /\ mresp' = mresp
            ELSE Route(r, mreq[r].ep, id, mreq[r].bodyOk, apiStats, "queued")
  /\ UNCHANGED <<api_keys, crashed>>
  /\ UNCHANGED <<bookings, jobs, acc, meetings, triggered, resp, v1resp>>
  /\ UNCHANGED <<contractors, outbox>>

\* The usage UPDATE of a request runs. It was issued without a callback: when
\* it fails, the driver emits the error as an 'error' event on the statement,
\* nothing listens to it, and the event is thrown as an uncaught exception,
\* which ends the process. Requests not yet answered then never are.
MeterRecordUsage(r) ==
  /\ ~crashed
  /\ mreq[r].rec = "queued"
  /\ \E fails \in BOOLEAN :
       IF fails
         THEN /\ api_keys' = api_keys
              /\ mreq' = [mreq EXCEPT ![r].rec = "failed"]
              /\ crashed' = TRUE
         ELSE /\ api_keys' = UsageUpdate(api_keys, mreq[r].key)
              /\ mreq' = [mreq EXCEPT ![r].rec = "done"]
              /\ crashed' = crashed
  /\ UNCHANGED <<apiStats, mresp>>
  /\ UNCHANGED <<bookings, jobs, acc, meetings, triggered, resp, v1resp>>
  /\ UNCHANGED <<contractors, outbox>>

\* The callback of a route's INSERT: app.post('/api/keys') stores the new key
\* and app.post('/api/bookings') the new booking, answered 200, or the
\* statement fails (a NOT NULL column left out, a storage error) and the
\* answer is 500. A booking body that leaves a column out and a storage
\* error end alike, so err stands for both.
MeterStatement(r) ==
  /\ ~crashed
  /\ mreq[r].pc = "stmt"
  /\ \E err \in BOOLEAN :
       LET ep == mreq[r].ep
           stored ==
             /\ ~err
             /\ IF ep = "POST /api/keys"
                  THEN Len(api_keys) < MaxKeys
                  ELSE mreq[r].bodyOk /\ Len(bookings) < MaxBookings
           code == IF stored THEN 200 ELSE 500
       IN \E now \in (IF stored /\ ep = "POST /api/bookings"
                        THEN Clock(bookings) ELSE {0}) :
          /\ api_keys' = IF stored /\ ep = "POST /api/keys"
                           THEN Append(api_keys, NewKeyRow) ELSE api_keys
          /\ bookings' = IF stored /\ ep = "POST /api/bookings"
                           THEN Append(bookings, NewBookingRow("Plumbing", now))
                           ELSE bookings
          /\ \E duration \in Durations :
               apiStats' = Sent(apiStats, ep, code, duration)
          /\ mreq' = [mreq EXCEPT ![r].pc = "done", ![r].code = code]
  /\ UNCHANGED <<mresp, crashed>>
  /\ UNCHANGED <<jobs, acc, meetings, triggered, resp, v1resp>>
  /\ UNCHANGED <<contractors, outbox>>

\* ------------------------------------------------------------------ Spec
\* server.js and the /api/v1 router are separate applications over separate
\* stores: each is a specification of its own, and Spec is the two together.
NextServer ==
  \/ CreateBooking
  \/ AvailableJobs
  \/ \E r \in Reqs : AcceptInsert(r)
  \/ \E r \in Reqs : AcceptUpdate(r)

NextV1 ==
  \/ V1CreateBooking
  \/ V1UpdateBooking
  \/ V1CancelBooking

Next == NextServer \/ NextV1

Spec == Init /\ [][Next]_vars

SpecServer == Init /\ [][NextServer]_vars

SpecV1 == Init /\ [][NextV1]_vars

\* Claiming a booking in server.js and cancelling in the /api/v1 router.
NextCancel ==
  \/ CreateBooking
  \/ \E r \in Reqs : AcceptInsert(r)
  \/ \E r \in Reqs : AcceptUpdate(r)
  \/ V1CreateBooking
  \/ V1CancelBooking

SpecCancel == Init /\ [][NextCancel]_vars

\* server.js seen from its middleware chain: monitoring, the API-key gate and
\* the routes behind them.
NextMeter ==
  \/ \E r \in MReqs : MeterArrive(r)
  \/ \E r \in MReqs : MeterKeyLookup(r)
  \/ \E r \in MReqs : MeterRecordUsage(r)
  \/ \E r \in MReqs : MeterStatement(r)

SpecMeter == Init /\ [][NextMeter]_vars

\* The statements the driver has been handed are run: a usage UPDATE that has
\* been issued does not wait forever.
SpecMeterFair ==
  SpecMeter /\ \A r \in MReqs : WF_vars(MeterRecordUsage(r))

\* server.js with its contractors: signing up, creating bookings, listing and
\* claiming them.
NextDispatch ==
  \/ ContractorSignup
  \/ CreateBooking
  \/ AvailableJobs
  \/ \E r \in Reqs : AcceptInsert(r)
  \/ \E r \in Reqs : AcceptUpdate(r)

SpecDispatch == Init /\ [][NextDispatch]_vars

\* The two create-booking handlers, fed any body, and the listing that shows
\* what server.js has stored.
NextIntake ==
  \/ CreateBookingAny
  \/ AvailableJobs
  \/ V1CreateBooking

SpecIntake == Init /\ [][NextIntake]_vars

\* The /api/v1 router together with the delivery of its webhook events.
NextNotify ==
  \/ V1CreateBooking
  \/ V1UpdateBooking
  \/ V1CancelBooking
  \/ DeliverEvent

SpecNotify == Init /\ [][NextNotify]_vars

\* ================================================================ claims

\* the accept-job requests that have arrived / have been answered
Arrived(r)  == acc[r].pc # "idle"
Answered(r) == acc[r].pc = "done"

\* request r is answered in this step
AnsweredNow(r) == acc[r].pc # "done" /\ acc'[r].pc = "done"

\* request r takes a step (its INSERT or its UPDATE)
StepOf(r) == acc'[r] # acc[r]

\* a step of the /api/v1 router
V1Step == <<meetings, triggered, v1resp>>' # <<meetings, triggered, v1resp>>

\* ---------------------------------------------------------------- C1
\* C1: when two or more claims by distinct contractors arrive for the same
\* pending booking and all have been answered without a storage failure,
\* exactly one was answered with success (200) and every other with a conflict
\* (409), the booking is confirmed and its contractor is the successful one.
C1_AtomicClaim ==
  \A b \in DOMAIN bookings :
    LET R == {r \in Reqs : /\ Arrived(r)
                           /\ acc[r].bookingId = b
                           /\ acc[r].seen = "pending"
                           /\ acc[r].contractorId # NULL}
    IN (/\ Cardinality(R) >= 2
        /\ \A r \in R : Answered(r) /\ acc[r].code # 500
        /\ \A r1, r2 \in R : r1 # r2 => acc[r1].contractorId # acc[r2].contractorId)
       => \E w \in R :
            /\ acc[w].code = 200
            /\ \A r \in R \ {w} : acc[r].code = 409
            /\ bookings[b].status = "confirmed"
            /\ bookings[b].contractor_id = acc[w].contractorId

\* ---------------------------------------------------------------- C2
\* C2: in every state of server.js, also between the INSERT and the UPDATE of
\* a claim in flight, each booking row has contractor_id set if and only if
\* its status is confirmed.
C2_ContractorIffConfirmed ==
  \A b \in DOMAIN bookings :
    (bookings[b].contractor_id # NULL) <=> (bookings[b].status = "confirmed")

\* a claim is in flight on a pending booking while another booking is confirmed
C2_Witness ==
  \E r \in Reqs, b \in DOMAIN bookings :
    /\ acc[r].pc = "inserted"
    /\ acc[r].bookingId \in DOMAIN bookings
    /\ bookings[acc[r].bookingId].status = "pending"
    /\ bookings[b].status = "confirmed"

\* ---------------------------------------------------------------- C3
\* C3: once a booking (a bookings row, or a booking kept as a CRM meeting) is
\* confirmed or cancelled, no step makes it pending again.
C3_MonotonicStatus ==
  [][/\ \A b \in DOMAIN bookings :
          bookings[b].status \in {"confirmed", "cancelled"}
            => bookings'[b].status # "pending"
     /\ \A m \in DOMAIN meetings :
          meetings[m].status \in {"confirmed", "Canceled"}
            => meetings'[m].status # "pending"]_vars

\* ---------------------------------------------------------------- C4
\* C4: a claim that arrives for a booking already confirmed or cancelled
\* changes no booking in any of its steps and, unless storage fails, is
\* answered with a conflict (409).
C4_ClaimOnTakenBooking ==
  [][\A r \in Reqs :
       (/\ StepOf(r)
        /\ acc'[r].seen \in {"confirmed", "cancelled"}
        /\ acc'[r].contractorId # NULL)
       => /\ bookings' = bookings
          /\ (AnsweredNow(r) /\ acc'[r].code # 500) => acc'[r].code = 409]_vars

\* ---------------------------------------------------------------- C5
\* C5: a claim whose bookingId matches no booking adds no job record and
\* changes no booking in any of its steps and, unless storage fails, is
\* answered with not found (404).
C5_ClaimOnMissingBooking ==
  [][\A r \in Reqs :
       (/\ StepOf(r)
        /\ acc'[r].seen = "missing"
        /\ acc'[r].contractorId # NULL)
       => /\ bookings' = bookings
          /\ jobs' = jobs
          /\ (AnsweredNow(r) /\ acc'[r].code # 500) => acc'[r].code = 404]_vars

\* ---------------------------------------------------------------- C6
\* C6: once a booking's contractor_id is set, no step changes it.
C6_ContractorWrittenOnce ==
  [][\A b \in DOMAIN bookings :
       bookings[b].contractor_id # NULL
         => bookings'[b].contractor_id = bookings[b].contractor_id]_vars

\* ---------------------------------------------------------------- C7
\* C7: every create-booking request answered with success (POST /api/bookings
\* with 200, POST /api/v1/bookings with 201) has made a booking under an id no
\* booking had before, and its answer is that booking: the new id, status
\* pending and no contractor.
C7_CreateYieldsPending ==
  [][/\ (resp' # resp /\ resp'.op = "create" /\ resp'.code = 200)
          => /\ resp'.id \notin DOMAIN bookings
             /\ resp'.id \in DOMAIN bookings'
             /\ bookings'[resp'.id].status = "pending"
             /\ bookings'[resp'.id].contractor_id = NULL
             /\ resp'.status = "pending"
     /\ (v1resp' # v1resp /\ v1resp'.op = "v1create" /\ v1resp'.code = 201)
          => /\ v1resp'.id \notin DOMAIN meetings
             /\ v1resp'.id \in DOMAIN meetings'
             /\ v1resp'.status = "pending"]_vars

C10_CancelConfirmed ==
  [][\A b \in DOMAIN bookings :
       (/\ V1Step
        /\ v1resp'.op = "v1cancel"
        /\ v1resp'.code = 204
        /\ v1resp'.id = b
        /\ bookings[b].status = "confirmed")
       => /\ bookings'[b].status = "cancelled"
          /\ bookings'[b].contractor_id = bookings[b].contractor_id]_vars

\* the requests that have entered the middleware chain / are on their way
Entered(r)  == mreq[r].pc # "idle"
InFlight(r) == mreq[r].pc \in {"lookup", "stmt"}

\* request r of the middleware chain takes a step
MStepOf(r) == mreq'[r] # mreq[r]

\* ---------------------------------------------------------------- C11
\* C11: in every state, whatever the interleaving of the requests' steps,
\* apiStats.totalRequests is exactly the number of requests that have entered
\* the monitoring middleware.
C11_CounterExact ==
  apiStats.totalRequests = Cardinality({r \in MReqs : Entered(r)})

\* three requests have entered and two of them are still on their way
C11_Witness ==
  /\ apiStats.totalRequests = 3
  /\ \E r1, r2 \in MReqs : r1 # r2 /\ InFlight(r1) /\ InFlight(r2)

\* ---------------------------------------------------------------- C12
\* C12: the statistics answered by GET /api/stats count at least one request,
\* and their errorRate is never NaN: it is totalErrors / totalRequests as a
\* percentage, rounded to the nearest hundredth and written with two decimals
\* (0 errors give 0.00%).
C12_ErrorRate ==
  mresp # NoStats =>
    LET T == mresp.totalRequests
        E == mresp.totalErrors
    IN /\ T >= 1
       /\ E <= T
       /\ mresp.errorRate \notin {"NaN%", "Infinity%"}
       /\ (E = 0) => mresp.errorRate = "0.00%"
       /\ \E h \in {(10000 * E) \div T, (10000 * E) \div T + 1} :
            /\ mresp.errorRate = ToFixed2(h) \o "%"
            /\ 2 * (h * T - 10000 * E) <= T
            /\ 2 * (10000 * E - h * T) <= T

\* statistics answered when two of three requests had ended in an error
C12_Witness ==
  /\ mresp.totalRequests = 3
  /\ mresp.totalErrors = 2
  /\ mresp.errorRate = "66.67%"

\* ---------------------------------------------------------------- C13
\* C13: a request without a key goes on to its route when it arrives and is
\* never answered 401; a request whose key no active row holds is answered
\* 401 by the key lookup, which leaves bookings, jobs, api keys and the
\* statistics last answered as they were, and takes no step after that.
C13_ApiKeyGate ==
  [][\A r \in MReqs :
       MStepOf(r) =>
         /\ (mreq[r].pc = "idle" /\ mreq'[r].key = NULL)
              => /\ mreq'[r].pc \in {"stmt", "done"}
                 /\ mreq'[r].code # 401
         /\ (mreq'[r].key = NULL) => mreq'[r].code # 401
         /\ (/\ mreq[r].pc = "lookup"
             /\ ~ (/\ mreq[r].key \in DOMAIN api_keys
                   /\ api_keys[mreq[r].key].active = 1))
              => /\ mreq'[r].pc = "done"
                 /\ mreq'[r].code = 401
                 /\ bookings' = bookings
                 /\ jobs' = jobs
                 /\ api_keys' = api_keys
                 /\ mresp' = mresp
         /\ mreq[r].code # 401]_vars

\* with a key on record, a request presenting an unknown key has been answered
\* 401 and a request without a key 200
C13_Witness ==
  /\ Len(api_keys) >= 1
  /\ \E r1, r2 \in MReqs :
       /\ mreq[r1].key = UnknownKey /\ mreq[r1].pc = "done" /\ mreq[r1].code = 401
       /\ mreq[r2].key = NULL /\ mreq[r2].pc = "done" /\ mreq[r2].code = 200

C15_UsageFailureHarmless ==
  \A r \in MReqs :
    mreq[r].rec = "failed" => (mreq[r].pc = "done" \/ ~crashed)

C17_Independence ==
  \A r \in Reqs :
    /\ acc[r].pc = "inserted" => ENABLED AcceptUpdate(r)
    /\ (/\ acc[r].pc = "idle"
        /\ IF r = 1 THEN TRUE ELSE acc[r - 1].pc # "idle")
         => ENABLED AcceptInsert(r)

\* two claims on different bookings are both between their INSERT and their
\* UPDATE
C17_Witness ==
  \E r1, r2 \in Reqs :
    /\ acc[r1].pc = "inserted"
    /\ acc[r2].pc = "inserted"
    /\ acc[r1].bookingId # acc[r2].bookingId
    /\ acc[r1].bookingId \in DOMAIN bookings
    /\ acc[r2].bookingId \in DOMAIN bookings

\* ---------------------------------------------------------------- C18
\* C18: no step changes or removes a job row that exists, and a claim that is
\* answered with anything but success leaves no job row of its own behind.
C18_JobsOnlyBySuccess ==
  [][/\ Len(jobs') >= Len(jobs)
     /\ \A j \in DOMAIN jobs : jobs'[j] = jobs[j]
     /\ \A r \in Reqs :
          (AnsweredNow(r) /\ acc'[r].code # 200)
            => acc'[r].jobId \notin DOMAIN jobs']_vars

\* ---------------------------------------------------------------- C19
\* C19: a claim made for a contractor that is not an active row of the
\* contractors table changes no booking in any of its steps and is not
\* answered with success, and the pending jobs are listed with success only
\* when some contractor is active.
C19_ActiveContractorsOnly ==
  [][/\ \A r \in Reqs :
          (/\ StepOf(r)
           /\ acc'[r].contractorId # NULL
           /\ ~ContractorActive(contractors, acc'[r].contractorId))
          => /\ bookings' = bookings
             /\ AnsweredNow(r) => acc'[r].code # 200
     /\ (resp' # resp /\ resp'.op = "available" /\ resp'.code = 200)
          => \E c \in DOMAIN contractors : ContractorActive(contractors, c)]_vars

\* ---------------------------------------------------------------- C20
\* C20: a create-booking request whose service name is empty or that leaves a
\* required field out stores nothing and is answered with a validation error
\* (400): no booking with an empty service name is ever stored, a create of
\* server.js that is not answered 200 is answered 400, and a create of the
\* /api/v1 router answered 400 adds no meeting and triggers no event.
C20_ValidationBeforeWrites ==
  [][/\ \A b \in DOMAIN bookings' : bookings'[b].service # ""
     /\ (resp' # resp /\ resp'.op = "create" /\ resp'.code # 200)
          => (resp'.code = 400 /\ bookings' = bookings)
     /\ (v1resp' # v1resp /\ v1resp'.op = "v1create" /\ v1resp'.code = 400)
          => (meetings' = meetings /\ triggered' = triggered)]_vars

\* ---------------------------------------------------------------- C21
\* C21: when the claims that arrived for a booking while it was pending have
\* all been answered without a storage failure, the booking's contractor_id
\* is that of the claim among them that arrived first.
C21_FirstArrivalWins ==
  \A b \in DOMAIN bookings :
    LET R == {r \in Reqs : /\ Arrived(r)
                           /\ acc[r].bookingId = b
                           /\ acc[r].seen = "pending"
                           /\ acc[r].contractorId # NULL}
    IN (/\ R # {}
        /\ \A r \in R : Answered(r) /\ acc[r].code # 500)
       => \E first \in R :
            /\ \A r \in R : first <= r
            /\ bookings[b].contractor_id = acc[first].contractorId

\* ---------------------------------------------------------------- C26
\* C26: in every state no two accepted job rows have the same booking_id, and
\* every accepted job row names a booking that exists and whose contractor_id
\* is the job row's contractor_id.
C26_OneAcceptedJobPerBooking ==
  /\ \A i, j \in DOMAIN jobs :
       (/\ i # j
        /\ jobs[i].status = "accepted"
        /\ jobs[j].status = "accepted")
       => jobs[i].booking_id # jobs[j].booking_id
  /\ \A j \in DOMAIN jobs :
       jobs[j].status = "accepted"
         => /\ jobs[j].booking_id \in DOMAIN bookings
            /\ bookings[jobs[j].booking_id].contractor_id = jobs[j].contractor_id

\* ---------------------------------------------------------------- C27
\* C27: a step of a claim on booking X adds and removes no booking, leaves
\* every other booking as it was, and leaves the service and created_at of X
\* as they were, whether the claim is answered with success or not.
C27_ClaimFrame ==
  [][\A r \in Reqs :
       StepOf(r) =>
         /\ DOMAIN bookings' = DOMAIN bookings
         /\ \A b \in DOMAIN bookings :
              IF b = acc'[r].bookingId
                THEN /\ bookings'[b].service = bookings[b].service
                     /\ bookings'[b].created_at = bookings[b].created_at
                ELSE bookings'[b] = bookings[b]]_vars

\* a claim on the first of two bookings has been answered with success, a
\* claim on it has failed, and the second booking is still pending
C27_Witness ==
  /\ Len(bookings) = 2
  /\ bookings[1].status = "confirmed"
  /\ bookings[2].status = "pending"
  /\ \E r1, r2 \in Reqs :
       /\ acc[r1].bookingId = 1 /\ Answered(r1) /\ acc[r1].code = 200
       /\ acc[r2].bookingId = 1 /\ Answered(r2) /\ acc[r2].code = 500

\* ---------------------------------------------------------------- C22
\* C22: in the step in which a request reaches its route or is answered 401 by
\* the API-key gate, apiStats.totalRequests counts every request that has
\* entered, this one included, and so does the count of its endpoint; the
\* statistics GET /api/stats answers count the request that asked for them.
C22_CountedBeforeHandler ==
  [][\A r \in MReqs :
       (/\ mreq[r].pc \in {"idle", "lookup"}
        /\ mreq'[r].pc \in {"stmt", "done"})
       => LET ep == mreq'[r].ep
              entered == {q \in MReqs : mreq'[q].pc # "idle"}
          IN /\ ep \in DOMAIN apiStats'.endpoints
             /\ apiStats'.totalRequests = Cardinality(entered)
             /\ apiStats'.endpoints[ep].count =
                  Cardinality({q \in entered : mreq'[q].ep = ep})
             /\ (ep = "GET /api/stats" /\ mreq'[r].code = 200)
                  => mresp'.totalRequests = Cardinality(entered)]_vars

\* after a request was answered 401 by the gate, the statistics answered to a
\* second request count both
C22_Witness ==
  /\ mresp.totalRequests = 2
  /\ mresp.totalErrors = 1
  /\ apiStats.totalRequests = 2
  /\ \E r1, r2 \in MReqs :
       /\ mreq[r1].pc = "done" /\ mreq[r1].code = 401
       /\ mreq[r2].pc = "done" /\ mreq[r2].code = 200
       /\ mreq[r2].ep = "GET /api/stats"

\* ---------------------------------------------------------------- C24
\* C24: every request let through with a valid key, whose usage UPDATE has been
\* issued, eventually has the UPDATE done: usage_count incremented and
\* last_used set for it.
C24_EventualUsage ==
  \A r \in MReqs : (mreq[r].rec = "queued") ~> (mreq[r].rec = "done")

\* ---------------------------------------------------------------- C25
\* C25: before and after every step, apiStats.totalRequests is the sum of the
\* endpoints' counts, apiStats.errors the sum of the endpoints' errors,
\* errors <= totalRequests and each endpoint's errors <= its count; and no
\* step lowers any of these counters or removes an endpoint.
C25_MeterInvariants ==
  [][LET Sum(s, field) ==
           LET RECURSIVE Add(_)
               Add(S) == IF S = {} THEN 0
                         ELSE LET e == CHOOSE x \in S : TRUE
                              IN s.endpoints[e][field] + Add(S \ {e})
           IN Add(DOMAIN s.endpoints)
         Sound(s) ==
           /\ s.totalRequests = Sum(s, "count")
           /\ s.errors = Sum(s, "errors")
           /\ s.errors <= s.totalRequests
           /\ \A e \in DOMAIN s.endpoints :
                s.endpoints[e].errors <= s.endpoints[e].count
     IN /\ Sound(apiStats)
        /\ Sound(apiStats')
        /\ apiStats'.totalRequests >= apiStats.totalRequests
        /\ apiStats'.errors >= apiStats.errors
        /\ \A e \in DOMAIN apiStats.endpoints :
             /\ e \in DOMAIN apiStats'.endpoints
             /\ apiStats'.endpoints[e].count >= apiStats.endpoints[e].count
             /\ apiStats'.endpoints[e].errors >= apiStats.endpoints[e].errors]_vars

\* errors have been counted on two endpoints, and a third request has ended
\* without one
C25_Witness ==
  /\ apiStats.totalRequests = 3
  /\ apiStats.errors = 2
  /\ \E e1, e2 \in DOMAIN apiStats.endpoints :
       /\ e1 # e2
       /\ apiStats.endpoints[e1].errors = 1
       /\ apiStats.endpoints[e2].errors = 1
  /\ \A r \in MReqs : mreq[r].pc = "done"

\* ---------------------------------------------------------------- C23
\* C23: in the step in which a request is answered, a duration is added to the
\* totalTime of its endpoint; when the status code is 400 or more
\* apiStats.errors and the endpoint's errors each grow by one, and otherwise
\* neither changes; the totalTime and errors of every other endpoint stay as
\* they were.
C23_CompletionCounters ==
  [][\A r \in MReqs :
       (mreq[r].pc # "done" /\ mreq'[r].pc = "done")
       => LET ep == mreq'[r].ep
              code == mreq'[r].code
              before == IF ep \in DOMAIN apiStats.endpoints
                          THEN apiStats.endpoints[ep]
                          ELSE [count |-> 0, totalTime |-> 0, errors |-> 0]
              after == apiStats'.endpoints[ep]
          IN /\ \E duration \in Durations :
                  after.totalTime = before.totalTime + duration
             /\ (code >= 400)
                  => /\ apiStats'.errors = apiStats.errors + 1
                     /\ after.errors = before.errors + 1
             /\ (code < 400)
                  => /\ apiStats'.errors = apiStats.errors
                     /\ after.errors = before.errors
             /\ \A e \in DOMAIN apiStats.endpoints \ {ep} :
                  apiStats'.endpoints[e] = apiStats.endpoints[e]]_vars

====
